---- MODULE Spec2Model ----
(***************************************************************************)
(* restplay: extraction of the client_id of an inbound HTTP request.       *)
(*                                                                         *)
(* The three revisions of GetClientID (src/request_context.go, which also  *)
(* returns the request; src/unnamed/part_002; src/unnamed/part_001, which  *)
(* moves the form lookup behind the switch) are modelled together with the *)
(* net/http and net/url operations they call (BasicAuth, ParseForm,        *)
(* ParseQuery, Values.Get, io.ReadAll, mime.ParseMediaType).               *)
(*                                                                         *)
(* Strings that the code inspects character by character (credentials,     *)
(* bearer tokens, form values) are sequences of one-character strings.     *)
(* A query string or url-encoded body is the sequence of its '&'-separated *)
(* key=value segments, values still percent-encoded.                       *)
(***************************************************************************)
EXTENDS Integers, Sequences, FiniteSets, TLC

VARIABLES
    impl,        \* which revision of GetClientID the caller links against
    req,         \* the *http.Request the caller owns
    pre,         \* the request as it was before the latest GetClientID call
    ret,         \* (client_id, error) of the latest GetClientID call
    ret1,        \* (client_id, error) of the first GetClientID call
    calls,       \* number of GetClientID calls made on req
    downstream,  \* what a consumer reading req.Body after the calls received
    token,       \* input of a direct GetClientIDFromBearerToken call
    parsed       \* its (client_id, error) result

vars == <<impl, req, pre, ret, ret1, calls, downstream, token, parsed>>

-----------------------------------------------------------------------------
(* Bounds *)

MaxQuerySegs == 2   \* segments in the URL query string
MaxCalls == 2       \* successive GetClientID calls on one request
MaxTokenLen == 4    \* characters of a bearer token parsed directly

-----------------------------------------------------------------------------
(* Constants of the package *)

bearerPrefix == "Bearer "
formContentType == "application/x-www-form-urlencoded"
clientIDKey == "client_id"

NoErr == "nil"
NilRequestErr == "restplay: cannot get client_id from nil request"
InvalidBearerTokenErr == "restplay: invalid token"
MissingClientIDErr == "restplay: failed to find client_id in request"
ReadBodyErr == "restplay: failed to read request body"
ParseBodyErr == "restplay: failed to parse request form from body"
ParseURLErr == "restplay: failed to parse request form from URL"

-----------------------------------------------------------------------------
(* Strings *)

Empty == <<>>

\* All sequences over S of length at most n.
SeqUpTo(S, n) == UNION {[1..k -> S] : k \in 0..n}

\* Index of the first occurrence of character c in s, 0 when absent.
RECURSIVE IndexFrom(_, _, _)
IndexFrom(s, c, i) ==
    IF i > Len(s) THEN 0
    ELSE IF s[i] = c THEN i
    ELSE IndexFrom(s, c, i + 1)

Index(s, c) == IndexFrom(s, c, 1)

\* strings.Split(s, sep) for a one-character separator: always at least one
\* field; n separators give n + 1 fields.
RECURSIVE Split(_, _)
Split(s, sep) ==
    LET i == Index(s, sep) IN
    IF i = 0 THEN <<s>>
    ELSE <<SubSeq(s, 1, i - 1)>> \o Split(SubSeq(s, i + 1, Len(s)), sep)

-----------------------------------------------------------------------------
(* net/url: query strings and url.Values *)

Keys == {clientIDKey, "other"}

\* url.Values: every key maps to the list of its values (empty: key absent).
EmptyValues == [k \in Keys |-> <<>>]

\* Variant: the last value of the key in place of the first
ValuesGetLast(v, key) ==
    IF Len(v[key]) = 0 THEN Empty ELSE v[key][Len(v[key])]

\* Values.Get: the first value of the key, "" when there is none.
ValuesGet(v, key) ==
    IF Len(v[key]) = 0 THEN Empty ELSE v[key][1]

\* copyValues(dst, src): append src's values to dst's, key by key.
copyValues(dst, src) == [k \in Keys |-> dst[k] \o src[k]]

HexDigits == {"0", "1", "2", "3", "4", "5", "6", "7", "8", "9",
              "a", "b", "c", "d", "e", "f", "A", "B", "C", "D", "E", "F"}

\* The byte a %XY escape stands for (only %42 occurs in the model).
HexByte(x, y) == IF x = "4" /\ y = "2" THEN "B" ELSE "?"

\* url.QueryUnescape: '+' is a space, %XY a byte, a '%' not followed by two
\* hex digits is an error.
RECURSIVE QueryUnescape(_)
QueryUnescape(s) ==
    IF s = <<>> THEN [ok |-> TRUE, s |-> <<>>]
    ELSE IF Head(s) = "%" THEN
        IF Len(s) >= 3 /\ s[2] \in HexDigits /\ s[3] \in HexDigits
        THEN LET rest == QueryUnescape(SubSeq(s, 4, Len(s)))
             IN  [ok |-> rest.ok, s |-> <<HexByte(s[2], s[3])>> \o rest.s]
        ELSE [ok |-> FALSE, s |-> <<>>]
    ELSE LET rest == QueryUnescape(Tail(s))
             c == IF Head(s) = "+" THEN " " ELSE Head(s)
         IN  [ok |-> rest.ok, s |-> <<c>> \o rest.s]

\* url.parseQuery: segments are taken in order; a segment whose value does
\* not unescape is skipped and makes the whole parse report an error, the
\* segments that did parse are kept.
RECURSIVE parseQuery(_, _)
parseQuery(m, query) ==
    IF query = <<>> THEN [vals |-> m, err |-> FALSE]
    ELSE LET seg == Head(query)
             value == QueryUnescape(seg.v)
         IN  IF seg.k = "" THEN parseQuery(m, Tail(query))
             ELSE IF ~value.ok
             THEN [vals |-> parseQuery(m, Tail(query)).vals, err |-> TRUE]
             ELSE parseQuery([m EXCEPT ![seg.k] = @ \o <<value.s>>], Tail(query))

\* url.ParseQuery
ParseQuery(query) == parseQuery(EmptyValues, query)

-----------------------------------------------------------------------------
(* io: the request's body stream *)

\* A body stream: data is what the peer sent, pos how much of it has been
\* read, fails/failAt a transport error after failAt bytes, buffer whether the
\* stream is an in-memory io.NopCloser(bytes.NewBuffer(..)).
NilBody ==
    [isNil |-> TRUE, data |-> <<>>, pos |-> 0, fails |-> FALSE, failAt |-> 0,
     buffer |-> FALSE]

\* io.NopCloser(bytes.NewBuffer(b))
NewBuffer(b) ==
    [isNil |-> FALSE, data |-> b, pos |-> 0, fails |-> FALSE, failAt |-> 0,
     buffer |-> TRUE]

\* io.ReadAll(body): everything from the read position to EOF, or to the
\* first error. The stream is left where reading stopped; a stream that has
\* failed fails again when read again.
ReadAll(body) ==
    IF body.fails
    THEN [bytes |-> SubSeq(body.data, body.pos + 1, body.failAt),
          err |-> TRUE,
          body |-> [body EXCEPT !.pos = IF @ > body.failAt THEN @ ELSE body.failAt]]
    ELSE [bytes |-> SubSeq(body.data, body.pos + 1, Len(body.data)),
          err |-> FALSE,
          body |-> [body EXCEPT !.pos = Len(body.data)]]

-----------------------------------------------------------------------------
(* mime and net/http *)

\* strings.ToLower on the media types of the model
ToLower(t) ==
    IF t = "Application/X-WWW-Form-Urlencoded"
    THEN "application/x-www-form-urlencoded"
    ELSE t

\* A Content-Type header value is the sequence of its ';'-separated parts;
\* the absent header is the empty sequence.
\* mime.ParseMediaType lower-cases the part before the first ';' and returns
\* it as the media type; the parameters are returned separately and
\* GetClientID drops them. The absent header gives "" (and an error that
\* GetClientID drops as well).
ParseMediaType(v) == IF v = <<>> THEN "" ELSE ToLower(Head(v))

NilValues == [isNil |-> TRUE, vals |-> EmptyValues]

MakeValues(v) == [isNil |-> FALSE, vals |-> v]

\* ascii.EqualFold(auth[:len("Basic ")], "Basic ") on the schemes of the model
IsBasicScheme(scheme) == scheme \in {"Basic ", "basic ", "BASIC "}

\* http.Request.BasicAuth: the Authorization header must carry the Basic
\* scheme and a base64 payload that decodes to "username:password", cut at
\* the first ':'.
BasicAuth(r) ==
    LET auth == r.Authorization
        i == Index(auth.payload, ":")
        none == [username |-> Empty, password |-> Empty, ok |-> FALSE]
    IN  IF ~IsBasicScheme(auth.scheme) THEN none
        ELSE IF ~auth.b64ok THEN none
        ELSE IF i = 0 THEN none
        ELSE [username |-> SubSeq(auth.payload, 1, i - 1),
              password |-> SubSeq(auth.payload, i + 1, Len(auth.payload)),
              ok |-> TRUE]

\* http.parsePostForm: the body of a form content-type is read to EOF and
\* parsed; other content-types leave PostForm nil without error.
parsePostForm(r) ==
    IF r.Body.isNil
    THEN [vs |-> NilValues, err |-> TRUE, body |-> r.Body]
    ELSE IF ParseMediaType(r.ContentType) = formContentType
    THEN LET rd == ReadAll(r.Body)
             pq == ParseQuery(rd.bytes)
         IN  IF rd.err
             THEN [vs |-> NilValues, err |-> TRUE, body |-> rd.body]
             ELSE [vs |-> MakeValues(pq.vals), err |-> pq.err, body |-> rd.body]
    ELSE [vs |-> NilValues, err |-> FALSE, body |-> r.Body]

\* http.Request.ParseForm: fills PostForm from the body (body methods only)
\* and Form from PostForm followed by the URL query. Both fields are set even
\* when an error is returned.
ParseForm(r) ==
    LET pp == IF r.PostForm.isNil /\ r.Method \in {"POST", "PUT", "PATCH"}
              THEN parsePostForm(r)
              ELSE [vs |-> r.PostForm, err |-> FALSE, body |-> r.Body]
        postForm == IF pp.vs.isNil THEN MakeValues(EmptyValues) ELSE pp.vs
        q == ParseQuery(r.RawQuery)
        form == IF r.Form.isNil
                THEN MakeValues(copyValues(postForm.vals, q.vals))
                ELSE r.Form
    IN  [req |-> [r EXCEPT !.PostForm = postForm, !.Form = form, !.Body = pp.body],
         err |-> IF r.Form.isNil THEN pp.err \/ q.err ELSE pp.err]

-----------------------------------------------------------------------------
(* package restplay *)

\* What GetClientID returns: request_context.go returns the request as well,
\* the other two revisions leave it to the caller's pointer.
Result(clientID, r, err) == [clientID |-> clientID, req |-> r, err |-> err]

\* Variant: "len(fields) < 2" in place of "len(fields) != 2"
GetClientIDFromBearerTokenAtLeastTwo(tok) ==
    LET fields == Split(tok, ".") IN
    IF Len(fields) < 2 THEN [clientID |-> Empty, err |-> InvalidBearerTokenErr]
    ELSE IF fields[1] = Empty THEN [clientID |-> Empty, err |-> InvalidBearerTokenErr]
    ELSE [clientID |-> fields[1], err |-> NoErr]

\* GetClientIDFromBearerToken
GetClientIDFromBearerToken(tok) ==
    LET fields == Split(tok, ".") IN
    IF Len(fields) # 2 THEN [clientID |-> Empty, err |-> InvalidBearerTokenErr]
    ELSE IF fields[1] = Empty THEN [clientID |-> Empty, err |-> InvalidBearerTokenErr]
    ELSE [clientID |-> fields[1], err |-> NoErr]

\* Variant: the password is tested in place of the username
UsesBasicAuthByPassword(r) == BasicAuth(r).ok /\ BasicAuth(r).password # Empty

\* Variant: the test for a non-empty username is left out
UsesBasicAuthOkOnly(r) == BasicAuth(r).ok

\* "first attempt basic-auth": clientID, _, ok := req.BasicAuth(); ok && clientID != ""
UsesBasicAuth(r) == BasicAuth(r).ok /\ BasicAuth(r).username # Empty

\* strings.HasPrefix(req.Header.Get("Authorization"), bearerPrefix)
HasBearerPrefix(r) == r.Authorization.scheme = bearerPrefix

\* case http.MethodPost, http.MethodPatch, http.MethodPut
IsBodyMethod(method) == method \in {"POST", "PATCH", "PUT"}

\* Variant: the media type is not compared
IsFormRequestAnyType(r) == ~r.Body.isNil

\* mimetype == formContentType && req.Body != nil
IsFormRequest(r) ==
    ParseMediaType(r.ContentType) = formContentType /\ ~r.Body.isNil

\* Variant: the body is not put back
ResetBodyOmitted(r, bodyBytes) == r

\* req.Body = io.NopCloser(bytes.NewBuffer(bodyBytes))
ResetBody(r, bodyBytes) == [r EXCEPT !.Body = NewBuffer(bodyBytes)]

\* Variant: the value found is returned without the test for ""
FormLookupUnchecked(r) == Result(ValuesGet(r.Form.vals, clientIDKey), r, NoErr)

\* if clientID := req.Form.Get(clientIDKey); clientID != "" { return clientID }
\* and otherwise the final return of MissingClientIDErr
FormLookup(r) ==
    LET clientID == ValuesGet(r.Form.vals, clientIDKey) IN
    IF clientID # Empty THEN Result(clientID, r, NoErr)
    ELSE Result(Empty, r, MissingClientIDErr)

\* The block under "if req.Form == nil" of the body methods: copy the body,
\* put it back, parse the form, put the body back again.
ReadAndParseBody(r) ==
    LET rd == ReadAll(r.Body)
        consumed == [r EXCEPT !.Body = rd.body]
    IN  IF rd.err
        THEN [req |-> consumed, err |-> ReadBodyErr]
        ELSE LET pf == ParseForm(ResetBody(consumed, rd.bytes)) IN
             IF pf.err
             THEN [req |-> ResetBody(pf.req, rd.bytes), err |-> ParseBodyErr]
             ELSE [req |-> ResetBody(pf.req, rd.bytes), err |-> NoErr]

\* The POST/PATCH/PUT case of request_context.go and part_002
BodyMethodBranch(r) ==
    IF IsFormRequest(r)
    THEN IF r.Form.isNil
         THEN LET rp == ReadAndParseBody(r) IN
              IF rp.err # NoErr THEN Result(Empty, rp.req, rp.err)
              ELSE FormLookup(rp.req)
         ELSE FormLookup(r)
    ELSE Result(Empty, r, MissingClientIDErr)

\* The default case of the switch: the form comes from the URL query
QueryBranch(r) ==
    IF r.Form.isNil
    THEN LET pf == ParseForm(r) IN
         IF pf.err THEN Result(Empty, pf.req, ParseURLErr)
         ELSE FormLookup(pf.req)
    ELSE FormLookup(r)

\* The switch on req.Method
FormBranch(r) ==
    IF IsBodyMethod(r.Method) THEN BodyMethodBranch(r) ELSE QueryBranch(r)

\* Variant: an invalid token falls through to the form lookup
BearerResultFallsThrough(r) ==
    LET t == GetClientIDFromBearerToken(r.Authorization.payload) IN
    IF t.err # NoErr THEN FormBranch(r) ELSE Result(t.clientID, r, t.err)

\* Variant: the form is parsed before the token is looked at
BearerResultParsesForm(r) ==
    LET t == GetClientIDFromBearerToken(r.Authorization.payload) IN
    Result(t.clientID, ParseForm(r).req, t.err)

\* "next check bearer token": the parser's result is returned as it is
BearerResult(r) ==
    LET t == GetClientIDFromBearerToken(r.Authorization.payload) IN
    Result(t.clientID, r, t.err)

\* GetClientID of request_context.go
GetClientID(r) ==
    IF r.isNil THEN Result(Empty, r, NilRequestErr)
    ELSE IF UsesBasicAuth(r) THEN Result(BasicAuth(r).username, r, NoErr)
    ELSE IF HasBearerPrefix(r) THEN BearerResult(r)
    ELSE FormBranch(r)

\* GetClientID of part_002: the same steps, the request is not returned but
\* changed through the caller's pointer
GetClientIDPart002(r) ==
    IF r.isNil THEN Result(Empty, r, NilRequestErr)
    ELSE IF UsesBasicAuth(r) THEN Result(BasicAuth(r).username, r, NoErr)
    ELSE IF HasBearerPrefix(r) THEN BearerResult(r)
    ELSE IF IsBodyMethod(r.Method) THEN BodyMethodBranch(r)
    ELSE QueryBranch(r)

\* The POST/PATCH/PUT case of part_001: a request that is not a form request
\* gets an empty form when it has none, and the lookup follows in any case.
BodyMethodBranchPart001(r) ==
    IF IsFormRequest(r)
    THEN IF r.Form.isNil
         THEN LET rp == ReadAndParseBody(r) IN
              IF rp.err # NoErr THEN Result(Empty, rp.req, rp.err)
              ELSE FormLookup(rp.req)
         ELSE FormLookup(r)
    ELSE IF r.Form.isNil
         THEN FormLookup([r EXCEPT !.Form = MakeValues(EmptyValues)])
         ELSE FormLookup(r)

\* GetClientID of part_001
GetClientIDPart001(r) ==
    IF r.isNil THEN Result(Empty, r, NilRequestErr)
    ELSE IF UsesBasicAuth(r) THEN Result(BasicAuth(r).username, r, NoErr)
    ELSE IF HasBearerPrefix(r) THEN BearerResult(r)
    ELSE IF IsBodyMethod(r.Method) THEN BodyMethodBranchPart001(r)
    ELSE QueryBranch(r)

-----------------------------------------------------------------------------
(* The requests a caller may pass *)

Methods == {"GET", "POST", "PUT", "PATCH"}

Header(scheme, b64ok, payload) ==
    [scheme |-> scheme, b64ok |-> b64ok, payload |-> payload]

NoAuth == Header("", TRUE, Empty)

\* Authorization header values: absent; Basic u: / :p / u (no colon) / not
\* base64; Bearer t.s / .s; and a lower-case "bearer t.s".
Authorizations ==
    { NoAuth,
      Header("Basic ", TRUE, <<"u", ":">>),
      Header("Basic ", TRUE, <<":", "p">>),
      Header("Basic ", TRUE, <<"u">>),
      Header("Basic ", FALSE, <<"u", ":">>),
      Header(bearerPrefix, TRUE, <<"t", ".", "s">>),
      Header(bearerPrefix, TRUE, <<".", "s">>),
      Header("bearer ", TRUE, <<"t", ".", "s">>) }

ContentTypes ==
    { <<>>,
      <<formContentType>>,
      <<formContentType, " charset=UTF-8">>,
      <<"Application/X-WWW-Form-Urlencoded">>,
      <<"application/json">> }

Seg(k, v) == [k |-> k, v |-> v]

\* Query segments: client_id=Q, client_id=, other=% (a malformed escape)
QuerySegs == {Seg(clientIDKey, <<"Q">>), Seg(clientIDKey, Empty), Seg("other", <<"%">>)}

\* Bodies as sent: empty, client_id=B, client_id=, other=% (a malformed
\* escape), client_id=B&other=%
BodyData ==
    { <<>>,
      <<Seg(clientIDKey, <<"B">>)>>,
      <<Seg(clientIDKey, Empty)>>,
      <<Seg("other", <<"%">>)>>,
      <<Seg(clientIDKey, <<"B">>), Seg("other", <<"%">>)>> }

Stream(data, fails, failAt) ==
    [isNil |-> FALSE, data |-> data, pos |-> 0, fails |-> fails,
     failAt |-> failAt, buffer |-> FALSE]

\* No body, a body that reads to EOF, or one whose transport fails after
\* its first segment was delivered.
Bodies ==
    {NilBody}
    \cup {Stream(d, FALSE, 0) : d \in BodyData}
    \cup {Stream(d, TRUE, 1) : d \in {b \in BodyData : Len(b) >= 1 /\ b[1].v = <<"B">>}}

\* req.Form as the caller left it: not parsed, parsed and empty, or holding
\* client_id=F
Forms ==
    { NilValues,
      MakeValues(EmptyValues),
      MakeValues([EmptyValues EXCEPT ![clientIDKey] = <<(<<"F">>)>>]) }

NilReq ==
    [isNil |-> TRUE, Method |-> "", Authorization |-> NoAuth, ContentType |-> <<>>,
     RawQuery |-> <<>>, Body |-> NilBody, Form |-> NilValues, PostForm |-> NilValues]

Requests ==
    {NilReq}
    \cup [isNil : {FALSE}, Method : Methods, Authorization : Authorizations,
          ContentType : ContentTypes, RawQuery : SeqUpTo(QuerySegs, MaxQuerySegs),
          Body : Bodies, Form : Forms, PostForm : {NilValues}]

Impls == {"request_context", "part_001", "part_002"}

NoResult == [clientID |-> Empty, err |-> NoErr]

NotRead == [done |-> FALSE, bytes |-> <<>>, err |-> FALSE]

NotParsed == [done |-> FALSE, clientID |-> Empty, err |-> NoErr]

-----------------------------------------------------------------------------
(* The caller *)

Init ==
    /\ impl \in Impls
    /\ req \in Requests
    /\ pre = req
    /\ ret = NoResult
    /\ ret1 = NoResult
    /\ calls = 0
    /\ downstream = NotRead
    /\ token = Empty
    /\ parsed = NotParsed

\* The caller's bookkeeping around one call returning out
Returned(out) ==
    /\ pre' = req
    /\ req' = out.req
    /\ ret' = [clientID |-> out.clientID, err |-> out.err]
    /\ ret1' = IF calls = 0 THEN [clientID |-> out.clientID, err |-> out.err] ELSE ret1
    /\ calls' = calls + 1
    /\ UNCHANGED <<impl, downstream, token, parsed>>

\* A call of request_context.go's GetClientID(req)
CallGetClientID ==
    /\ impl = "request_context"
    /\ calls < MaxCalls
    /\ ~downstream.done
    /\ Returned(GetClientID(req))

\* A call of part_001's GetClientID(req)
CallGetClientIDPart001 ==
    /\ impl = "part_001"
    /\ calls < MaxCalls
    /\ ~downstream.done
    /\ Returned(GetClientIDPart001(req))

\* A call of part_002's GetClientID(req)
CallGetClientIDPart002 ==
    /\ impl = "part_002"
    /\ calls < MaxCalls
    /\ ~downstream.done
    /\ Returned(GetClientIDPart002(req))

\* The consumer after GetClientID: io.ReadAll(req.Body), as the test does
ReadBody ==
    /\ calls >= 1
    /\ ~req.isNil
    /\ ~req.Body.isNil
    /\ ~downstream.done
    /\ LET rd == ReadAll(req.Body) IN
        /\ downstream' = [done |-> TRUE, bytes |-> rd.bytes, err |-> rd.err]
        /\ req' = [req EXCEPT !.Body = rd.body]
    /\ UNCHANGED <<impl, pre, ret, ret1, calls, token, parsed>>

Next ==
    \/ CallGetClientID
    \/ CallGetClientIDPart001
    \/ CallGetClientIDPart002
    \/ ReadBody

Spec == Init /\ [][Next]_vars

-----------------------------------------------------------------------------
(* GetClientIDFromBearerToken called directly *)

TokenChars == {"a", "b", "."}

InitBearer ==
    /\ impl = "request_context"
    /\ req = NilReq
    /\ pre = NilReq
    /\ ret = NoResult
    /\ ret1 = NoResult
    /\ calls = 0
    /\ downstream = NotRead
    /\ token \in SeqUpTo(TokenChars, MaxTokenLen)
    /\ parsed = NotParsed

ParseToken ==
    /\ ~parsed.done
    /\ LET t == GetClientIDFromBearerToken(token) IN
        parsed' = [done |-> TRUE, clientID |-> t.clientID, err |-> t.err]
    /\ UNCHANGED <<impl, req, pre, ret, ret1, calls, downstream, token>>

NextBearer == ParseToken

SpecBearer == InitBearer /\ [][NextBearer]_vars

-----------------------------------------------------------------------------
(* Properties *)

\* A call has returned and nothing has touched the request since.
JustReturned == calls >= 1 /\ ~downstream.done

\* The Authorization header of r carries Basic credentials with a non-empty
\* username.
HasBasicUsername(r) == ~r.isNil /\ BasicAuth(r).ok /\ BasicAuth(r).username # Empty

\* The Authorization header of r starts with "Bearer ".
HasBearerHeader(r) == ~r.isNil /\ r.Authorization.scheme = "Bearer "

\* The first value of client_id among the segments of a raw query string or
\* body, "" when it has none.
FirstClientID(segs) ==
    LET at == {i \in DOMAIN segs : segs[i].k = "client_id"} IN
    IF at = {} THEN <<>>
    ELSE segs[CHOOSE i \in at : \A j \in at : i <= j].v

WrappedErrs == {ReadBodyErr, ParseBodyErr, ParseURLErr}

\* C1: when the request carries Basic credentials with a non-empty username,
\* GetClientID returns that username and no error, whatever else the request
\* holds.
C1_BasicAuthWins ==
    (calls >= 1 /\ HasBasicUsername(pre))
        => ret = [clientID |-> BasicAuth(pre).username, err |-> NoErr]

\* A POST of a form whose body says client_id=B, with Basic user u: u is returned.
C1_Witness ==
    /\ calls >= 1
    /\ HasBasicUsername(pre)
    /\ pre.Method = "POST"
    /\ pre.ContentType = <<formContentType>>
    /\ ~pre.Body.isNil
    /\ FirstClientID(pre.Body.data) = <<"B">>
    /\ ret = [clientID |-> <<"u">>, err |-> NoErr]

\* A bearer token is malformed: not exactly two '.'-separated fields, or an
\* empty first field.
Dots(tok) == {i \in DOMAIN tok : tok[i] = "."}

Malformed(tok) == Cardinality(Dots(tok)) # 1 \/ tok[1] = "."

\* C2: without a usable Basic username and with an Authorization header that
\* starts with "Bearer ", GetClientID returns what the token parser returns
\* for the rest of the header; a malformed token gives "" and
\* InvalidBearerToken, for every method and whatever the form body and the
\* query hold.
C2_BearerShortCircuits ==
    (calls >= 1 /\ ~HasBasicUsername(pre) /\ HasBearerHeader(pre))
        => /\ ret.clientID = GetClientIDFromBearerToken(pre.Authorization.payload).clientID
           /\ ret.err = GetClientIDFromBearerToken(pre.Authorization.payload).err
           /\ Malformed(pre.Authorization.payload)
                => ret = [clientID |-> <<>>, err |-> InvalidBearerTokenErr]

\* A PATCH of a form with client_id=B in the body, client_id=Q in the query and
\* the malformed token ".s": InvalidBearerToken.
C2_Witness ==
    /\ calls >= 1
    /\ HasBearerHeader(pre)
    /\ Malformed(pre.Authorization.payload)
    /\ pre.Method = "PATCH"
    /\ pre.ContentType = <<formContentType>>
    /\ ~pre.Body.isNil
    /\ FirstClientID(pre.Body.data) = <<"B">>
    /\ FirstClientID(pre.RawQuery) = <<"Q">>
    /\ ret = [clientID |-> <<>>, err |-> InvalidBearerTokenErr]

\* C4: GetClientIDFromBearerToken returns (first field, nil) exactly when the
\* token has one '.' and a non-empty part before it, and ("",
\* InvalidBearerToken) for every other token.
C4_BearerTokenParser ==
    parsed.done =>
        IF Cardinality(Dots(token)) = 1 /\ token[1] # "."
        THEN /\ parsed.err = NoErr
             /\ parsed.clientID = SubSeq(token, 1, (CHOOSE i \in Dots(token) : TRUE) - 1)
        ELSE /\ parsed.err = InvalidBearerTokenErr
             /\ parsed.clientID = <<>>

\* The token "ab." (empty second field) parses to client_id "ab".
C4_Witness ==
    /\ parsed.done
    /\ token = <<"a", "b", ".">>
    /\ parsed.clientID = <<"a", "b">>
    /\ parsed.err = NoErr

\* C8: every call ends either with a non-empty client_id and no error, or with
\* an empty client_id and one of NilRequest, InvalidBearerToken,
\* MissingClientID or a wrapped body-read or form-parse error.
C8_ResultShape ==
    calls >= 1 =>
        \/ ret.clientID # <<>> /\ ret.err = NoErr
        \/ /\ ret.clientID = <<>>
           /\ ret.err \in {NilRequestErr, InvalidBearerTokenErr, MissingClientIDErr}
                            \cup WrappedErrs

\* A form whose first client_id value is empty: "" with MissingClientID.
C8_Witness ==
    /\ calls >= 1
    /\ ~pre.isNil
    /\ pre.Method = "GET"
    /\ pre.Form.isNil
    /\ Len(pre.RawQuery) = 2
    /\ pre.RawQuery[1] = Seg("client_id", <<>>)
    /\ pre.RawQuery[2] = Seg("client_id", <<"Q">>)
    /\ ret = [clientID |-> <<>>, err |-> MissingClientIDErr]

\* C10: a call decided by the nil check, by Basic auth or by the Bearer header
\* leaves the body and the cached form as they were, and every call leaves the
\* method, the URL and the headers as they were.
C10_Frame ==
    JustReturned =>
        /\ (pre.isNil \/ HasBasicUsername(pre) \/ HasBearerHeader(pre))
             => /\ req.Body = pre.Body
                /\ req.Form = pre.Form
                /\ req.PostForm = pre.PostForm
        /\ req.isNil = pre.isNil
        /\ req.Method = pre.Method
        /\ req.RawQuery = pre.RawQuery
        /\ req.Authorization = pre.Authorization
        /\ req.ContentType = pre.ContentType

\* A POST of a form with an unread body and an invalid bearer token: after the
\* call the body is still the unread original and no form is cached.
C10_Witness ==
    /\ JustReturned
    /\ HasBearerHeader(pre)
    /\ ret.err = InvalidBearerTokenErr
    /\ pre.Method = "POST"
    /\ pre.ContentType = <<formContentType>>
    /\ ~req.Body.isNil
    /\ req.Body.data # <<>>
    /\ req.Body.pos = 0
    /\ ~req.Body.buffer
    /\ req.Form.isNil

\* The request is one whose body GetClientID reads to parse the form: a
\* POST, PUT or PATCH with the form content-type, a body, no parsed form yet,
\* and neither a Basic username nor a Bearer header.
ConsumesBody(r) ==
    /\ ~r.isNil
    /\ ~HasBasicUsername(r)
    /\ ~HasBearerHeader(r)
    /\ r.Method \in {"POST", "PUT", "PATCH"}
    /\ ParseMediaType(r.ContentType) = formContentType
    /\ ~r.Body.isNil
    /\ r.Form.isNil

\* C3, as claimed: after any call that consumed the body for form parsing,
\* whatever it returned (a wrapped body-read error included), a reader of the
\* body receives the bytes the body would have delivered before the call.
C3_AsClaimed ==
    (downstream.done /\ ConsumesBody(pre))
        => downstream.bytes = ReadAll(pre.Body).bytes

\* C3, amended: after a call that consumed the body for form parsing and
\* returned a client_id, MissingClientID or a wrapped form-parse error, a
\* reader of the body receives exactly the bytes the body held before the
\* call, without error. (After a wrapped body-read error the body stays as
\* the failed read left it.)
C3_BodyRestored ==
    (downstream.done /\ ConsumesBody(pre) /\ ret.err # ReadBodyErr)
        => /\ downstream.bytes = SubSeq(pre.Body.data, pre.Body.pos + 1, Len(pre.Body.data))
           /\ ~downstream.err

\* A form body that fails to parse: the call returns the wrapped form-parse
\* error and the reader still receives both segments.
C3_Witness ==
    /\ downstream.done
    /\ ConsumesBody(pre)
    /\ ret.err = ParseBodyErr
    /\ Len(downstream.bytes) = 2
    /\ downstream.bytes = pre.Body.data

\* The request is not a POST, PUT or PATCH, carries neither a Basic username
\* nor a Bearer header, and its query string has a non-empty first client_id.
QueryCarriesClientID(r) ==
    /\ ~r.isNil
    /\ r.Method \notin {"POST", "PUT", "PATCH"}
    /\ ~HasBasicUsername(r)
    /\ ~HasBearerHeader(r)
    /\ FirstClientID(r.RawQuery) # <<>>

\* C5, as claimed, on the first call for a request that has no parsed form
\* yet: such a request gets the query's first client_id and no error, and
\* its body is not read.
C5_AsClaimed ==
    (calls = 1 /\ QueryCarriesClientID(pre) /\ pre.Form.isNil)
        => /\ ret = [clientID |-> FirstClientID(pre.RawQuery), err |-> NoErr]
           /\ JustReturned => req.Body = pre.Body

\* C5, amended: such a request, when it has no parsed form yet and its whole
\* query string parses without error, gets the query's first client_id and no
\* error, and its body is not read.
C5_QueryClientID ==
    (calls >= 1 /\ QueryCarriesClientID(pre) /\ pre.Form.isNil /\ pre.PostForm.isNil
        /\ ~ParseQuery(pre.RawQuery).err)
        => /\ ret = [clientID |-> FirstClientID(pre.RawQuery), err |-> NoErr]
           /\ JustReturned => req.Body = pre.Body

\* GET ?client_id=Q&client_id= with an unread body: Q, and the body is still
\* unread.
C5_Witness ==
    /\ JustReturned
    /\ QueryCarriesClientID(pre)
    /\ pre.Form.isNil
    /\ pre.RawQuery = <<Seg("client_id", <<"Q">>), Seg("client_id", <<>>)>>
    /\ ~pre.Body.isNil
    /\ pre.Body.data # <<>>
    /\ req.Body.pos = 0
    /\ ret = [clientID |-> <<"Q">>, err |-> NoErr]

\* No Bearer header and no Basic username (Basic credentials with an empty
\* username included).
NoAuthValue(r) == ~r.isNil /\ ~HasBearerHeader(r) /\ ~HasBasicUsername(r)

\* client_id is absent or empty in the form body (POST, PUT, PATCH with the
\* form content-type) or in the URL query (other methods).
NoSourceValue(r) ==
    IF r.Method \in {"POST", "PUT", "PATCH"}
    THEN (ParseMediaType(r.ContentType) = formContentType /\ ~r.Body.isNil)
            => FirstClientID(r.Body.data) = <<>>
    ELSE FirstClientID(r.RawQuery) = <<>>

Unread(body) == SubSeq(body.data, body.pos + 1, Len(body.data))

ConsultedValues(r) ==
    IF ~r.Form.isNil THEN r.Form.vals["client_id"]
    ELSE IF r.Method \in {"POST", "PUT", "PATCH"}
    THEN IF ParseMediaType(r.ContentType) = formContentType /\ ~r.Body.isNil
         THEN ParseQuery(Unread(r.Body)).vals["client_id"]
                \o ParseQuery(r.RawQuery).vals["client_id"]
         ELSE <<>>
    ELSE ParseQuery(r.RawQuery).vals["client_id"]

\* Reading the body and parsing body and query, where the call does so,
\* meet no error.
ReadsAndParses(r) ==
    IF ~r.Form.isNil THEN TRUE
    ELSE IF r.Method \in {"POST", "PUT", "PATCH"}
    THEN (ParseMediaType(r.ContentType) = formContentType /\ ~r.Body.isNil)
            => /\ ~r.Body.fails
               /\ ~ParseQuery(Unread(r.Body)).err
               /\ ~ParseQuery(r.RawQuery).err
    ELSE ~ParseQuery(r.RawQuery).err

BodyMethodNoAuth(r) == NoAuthValue(r) /\ r.Method \in {"POST", "PUT", "PATCH"}

\* C7, as claimed: unless the Content-Type header value is exactly
\* application/x-www-form-urlencoded and a body is present, the body is not
\* read and the result is MissingClientID.
C7_AsClaimed ==
    (JustReturned /\ BodyMethodNoAuth(pre))
        => \/ pre.ContentType = <<"application/x-www-form-urlencoded">> /\ ~pre.Body.isNil
           \/ req.Body = pre.Body /\ ret = [clientID |-> <<>>, err |-> MissingClientIDErr]

\* C7, amended: unless the media type of the Content-Type header (parameters
\* dropped) is application/x-www-form-urlencoded and a body is present, the
\* body is not read and, when the request carries no parsed form with a
\* non-empty client_id, the result is MissingClientID, whatever the query
\* string holds.
C7_FormMediaTypeOnly ==
    (JustReturned /\ BodyMethodNoAuth(pre))
        => \/ ParseMediaType(pre.ContentType) = "application/x-www-form-urlencoded"
                /\ ~pre.Body.isNil
           \/ /\ req.Body = pre.Body
              /\ (pre.Form.isNil \/ pre.Form.vals["client_id"] = <<>>
                    \/ pre.Form.vals["client_id"][1] = <<>>)
                   => ret = [clientID |-> <<>>, err |-> MissingClientIDErr]

\* A PUT of application/json with client_id=B in the body and client_id=Q in
\* the query: MissingClientID, body unread.
C7_Witness ==
    /\ JustReturned
    /\ BodyMethodNoAuth(pre)
    /\ pre.Method = "PUT"
    /\ pre.ContentType = <<"application/json">>
    /\ pre.Form.isNil
    /\ ~pre.Body.isNil
    /\ FirstClientID(pre.Body.data) = <<"B">>
    /\ FirstClientID(pre.RawQuery) = <<"Q">>
    /\ req.Body.pos = 0
    /\ ~req.Body.buffer
    /\ ret = [clientID |-> <<>>, err |-> MissingClientIDErr]

\* C9, as claimed: the second of two successive calls on a request returns
\* the client_id and the error of the first.
C9_Repeatable == calls = 2 => ret = ret1

====
